---- MODULE Spec2Model ----
(***************************************************************************)
(* Model of reasoning_gym/graphs/family_relationships.py: the Person       *)
(* object graph, FamilyRelationshipsDataset._generate_family,              *)
(* _get_relationship_question, _generate_story and __getitem__.            *)
(*                                                                         *)
(* A Person is identified by its id (Person.__eq__ / __hash__ compare the  *)
(* id only).  Names are numbers: 0 stands for the empty string "", every   *)
(* other number of Names for a distinct non-empty string; None is -1.      *)
(***************************************************************************)
EXTENDS Integers, Sequences, FiniteSets, TLC

VARIABLES
    config,             \* FamilyRelationshipsConfig: sizes and the two name pools
    pc,                 \* position of the running method
    family_size,        \* _generate_family: the drawn target size
    family,             \* _generate_family: the set of Persons (ids)
    used_names,         \* _generate_family: names handed out so far
    id_counter,         \* _generate_family: next value of count()
    person,             \* id -> Person record (name, gender, spouse, parents, children)
    gender,             \* child loop: last drawn gender
    name,               \* child loop: last result of get_name
    person1,            \* _get_relationship_question: first sampled Person
    person2,            \* _get_relationship_question: second sampled Person
    relationship,       \* _get_relationship_question: label, or NoRelationship
    visited,            \* _generate_story: Persons the first loop has passed
    couples,            \* _generate_story: set of (person, spouse) tuples
    pending,            \* _generate_story: couples the second loop has not reached
    described_children, \* _generate_story: children already listed
    story_parts,        \* _generate_story: the sentences, in order
    record,             \* __getitem__: the returned dict, or NoRecord
    call,               \* Person-level runs: the last method call <<method, self, argument>>
    calls               \* Person-level runs: number of method calls made

vars == <<config, pc, family_size, family, used_names, id_counter, person,
          gender, name, person1, person2, relationship, visited, couples, pending,
          described_children, story_parts, record, call, calls>>

----------------------------------------------------------------------------
(* Bounds of the model *)

MaxName == 5          \* names are 0..MaxName
MaxFamilySize == 6    \* largest max_family_size tried
NumPersons == 3       \* Persons of the Person-level runs
MaxCalls == 4         \* Person method calls of a Person-level run

(* Program constants *)

None == -1            \* Python None (no name, no spouse)
EmptyName == 0        \* the empty string "", falsy like None
MinFamilySize == 3    \* validate(): min_family_size >= 3

MALE == "male"
FEMALE == "female"
Gender == {MALE, FEMALE}

MOTHER == "mother"
FATHER == "father"
SISTER == "sister"
BROTHER == "brother"
DAUGHTER == "daughter"
SON == "son"
WIFE == "wife"
HUSBAND == "husband"
GRANDMOTHER == "grandmother"
GRANDFATHER == "grandfather"
Relationship == {MOTHER, FATHER, SISTER, BROTHER, DAUGHTER, SON, WIFE, HUSBAND,
                 GRANDMOTHER, GRANDFATHER}
NoRelationship == "unclassified"

Names == 0..MaxName

----------------------------------------------------------------------------
(* Helpers on Python lists *)

InList(x, s) == \E i \in 1..Len(s) : s[i] = x

ListSet(s) == {s[i] : i \in 1..Len(s)}

\* Python truthiness of a name: None and "" are falsy
Truthy(n) == n # None /\ n # EmptyName

----------------------------------------------------------------------------
(* Person *)

\* Person(name, gender, id) followed by __post_init__
NewPerson(n, g) ==
    [name |-> n, gender |-> g, spouse |-> None, parents |-> <<>>, children |-> <<>>]

\* add_child without the two membership tests
add_child_unchecked(P, self, child) ==
    LET P1 == [P EXCEPT ![self].children = Append(@, child)]
    IN  [P1 EXCEPT ![child].parents = Append(@, self)]

\* Person.add_child: self.add_child(child) on the object graph P
add_child(P, self, child) ==
    LET P1 == IF ~InList(child, P[self].children)
              THEN [P EXCEPT ![self].children = Append(@, child)]
              ELSE P
    IN  IF ~InList(self, P1[child].parents)
        THEN [P1 EXCEPT ![child].parents = Append(@, self)]
        ELSE P1

\* add_spouse without the back link
add_spouse_one_way(P, self, spouse) == [P EXCEPT ![self].spouse = spouse]

\* Person.add_spouse: self.add_spouse(spouse) on the object graph P
add_spouse(P, self, spouse) ==
    LET P1 == [P EXCEPT ![self].spouse = spouse]
    IN  [P1 EXCEPT ![spouse].spouse = self]

----------------------------------------------------------------------------
(* FamilyRelationshipsConfig *)

\* validate()
validate(c) ==
    /\ c.min_family_size >= MinFamilySize
    /\ c.max_family_size >= c.min_family_size
    /\ Cardinality(c.male_names) > 0
    /\ Cardinality(c.female_names) > 0

\* the (male_names, female_names) pairs tried
NamePools ==
    { <<{1}, {1}>>,                                \* one name, in both pools
      <<{1}, {2}>>,                                \* one name per pool
      <<{1}, 2..MaxName>>,                         \* names left for daughters only
      <<1..3, {EmptyName, 4, 5}>> }                \* sons and daughters, "" among the names

\* validated configurations tried: sizes MinFamilySize..MaxFamilySize
Configs ==
    {c \in [min_family_size : {MinFamilySize},
            max_family_size : {MaxFamilySize},
            male_names : {p[1] : p \in NamePools},
            female_names : {p[2] : p \in NamePools}] :
        /\ validate(c)
        /\ <<c.male_names, c.female_names>> \in NamePools}

----------------------------------------------------------------------------
(* _generate_family *)

\* get_name: the names still available for gender g
available(c, g, used) ==
    (IF g = MALE THEN c.male_names ELSE c.female_names) \ used

\* get_name: the possible results <<name, used_names afterwards>>
get_name(c, g, used) ==
    IF available(c, g, used) = {}
    THEN {<<None, used>>}
    ELSE {<<n, used \cup {n}>> : n \in available(c, g, used)}

\* lines 216-244: draw the target size, create the grandparents and the parents
GenerateFamilySeed ==
    /\ pc = "start"
    /\ \E size \in config.min_family_size..config.max_family_size :
       \E r0 \in get_name(config, MALE, {}) :
       \E r1 \in get_name(config, FEMALE, r0[2]) :
       \E r2 \in get_name(config, MALE, r1[2]) :
       \E r3 \in get_name(config, FEMALE, r2[2]) :
         LET P0 == (0 :> NewPerson(r0[1], MALE)) @@ (1 :> NewPerson(r1[1], FEMALE))
             P1 == add_spouse(P0, 0, 1)
             P2 == P1 @@ (2 :> NewPerson(r2[1], MALE)) @@ (3 :> NewPerson(r3[1], FEMALE))
             P3 == add_spouse(P2, 2, 3)
             P4 == add_child(P3, 0, 2)
             P5 == add_child(P4, 1, 2)
         IN  /\ family_size' = size
             /\ person' = P5
             /\ used_names' = r3[2]
             /\ family' = {0, 1, 2, 3}
             /\ id_counter' = 4
    /\ pc' = "children"
    /\ UNCHANGED <<config, gender, name, person1, person2, relationship, visited,
                   couples, pending, described_children, story_parts, record, call, calls>>

\* lines 247-255: one pass of the child loop that adds a child
AddChild ==
    /\ pc = "children"
    /\ Cardinality(family) < family_size
    /\ \E g \in Gender :
       \E r \in get_name(config, g, used_names) :
         /\ Truthy(r[1])
         /\ gender' = g
         /\ name' = r[1]
         /\ used_names' = r[2]
         /\ person' = add_child(add_child(person @@ (id_counter :> NewPerson(r[1], g)),
                                          2, id_counter),
                                3, id_counter)
         /\ family' = family \cup {id_counter}
         /\ id_counter' = id_counter + 1
    /\ UNCHANGED <<config, pc, family_size, person1, person2, relationship, visited,
                   couples, pending, described_children, story_parts, record, call, calls>>

\* lines 247-251: a pass of the child loop that draws a falsy name and breaks
BreakChildLoop ==
    /\ pc = "children"
    /\ Cardinality(family) < family_size
    /\ \E g \in Gender :
       \E r \in get_name(config, g, used_names) :
         /\ ~Truthy(r[1])
         /\ gender' = g
         /\ name' = r[1]
         /\ used_names' = r[2]
    /\ pc' = "sample"
    /\ UNCHANGED <<config, family_size, family, id_counter, person, person1, person2,
                   relationship, visited, couples, pending, described_children,
                   story_parts, record, call, calls>>

\* lines 247, 257: the loop condition fails and the family is returned
ReturnFamily ==
    /\ pc = "children"
    /\ ~(Cardinality(family) < family_size)
    /\ pc' = "sample"
    /\ UNCHANGED <<config, family_size, family, used_names, id_counter, person, gender,
                   name, person1, person2, relationship, visited, couples, pending,
                   described_children, story_parts, record, call, calls>>

----------------------------------------------------------------------------
----------------------------------------------------------------------------
(* _get_relationship_question *)

\* gendered label: female if person1.gender == Gender.FEMALE else male
Gendered(P, p, female, male) == IF P[p].gender = FEMALE THEN female ELSE male

\* the parent test with the two persons exchanged
is_parent_reversed(P, p1, p2) == InList(p2, P[p1].parents)

\* line 266: person1 in person2.parents
is_parent(P, p1, p2) == InList(p1, P[p2].parents)

\* line 268: person2 in person1.parents
is_child(P, p1, p2) == InList(p2, P[p1].parents)

\* line 270: person1.spouse == person2
is_spouse(P, p1, p2) == P[p1].spouse = p2

\* the sibling test without the two non-empty tests
is_sibling_unguarded(P, p1, p2) == ListSet(P[p1].parents) = ListSet(P[p2].parents)

\* line 272: both parent lists non-empty and equal as sets
is_sibling(P, p1, p2) ==
    /\ Len(P[p1].parents) > 0
    /\ Len(P[p2].parents) > 0
    /\ ListSet(P[p1].parents) = ListSet(P[p2].parents)

\* the grandparent test taken in both directions
is_grandparent_either(P, p1, p2) ==
    \/ \E i \in 1..Len(P[p2].parents) : InList(p1, P[P[p2].parents[i]].parents)
    \/ \E i \in 1..Len(P[p1].parents) : InList(p2, P[P[p1].parents[i]].parents)

\* line 274: person1 in [p for parent in person2.parents for p in parent.parents]
is_grandparent(P, p1, p2) ==
    \E i \in 1..Len(P[p2].parents) : InList(p1, P[P[p2].parents[i]].parents)

\* lines 266-278: the if/elif chain; NoRelationship stands for the else branch
classify(P, p1, p2) ==
    IF is_parent(P, p1, p2) THEN Gendered(P, p1, MOTHER, FATHER)
    ELSE IF is_child(P, p1, p2) THEN Gendered(P, p1, DAUGHTER, SON)
    ELSE IF is_spouse(P, p1, p2) THEN Gendered(P, p1, WIFE, HUSBAND)
    ELSE IF is_sibling(P, p1, p2) THEN Gendered(P, p1, SISTER, BROTHER)
    ELSE IF is_grandparent(P, p1, p2) THEN Gendered(P, p1, GRANDMOTHER, GRANDFATHER)
    ELSE NoRelationship

\* line 263: rng.sample(list(family), 2), two distinct members in either order
sample(fam) == {pr \in fam \X fam : pr[1] # pr[2]}

\* the method without the else branch: an unclassified pair is returned
GetRelationshipQuestion_NoRetry ==
    /\ pc = "sample"
    /\ \E pr \in sample(family) :
         /\ person1' = pr[1]
         /\ person2' = pr[2]
         /\ relationship' = classify(person, pr[1], pr[2])
    /\ pc' = "couples"
    /\ UNCHANGED <<config, family_size, family, used_names, id_counter, person, gender,
                   name, visited, couples, pending, described_children, story_parts,
                   record, call, calls>>

\* lines 263-280: one invocation; an unclassified pair re-enters the method
GetRelationshipQuestion ==
    /\ pc = "sample"
    /\ \E pr \in sample(family) :
         /\ person1' = pr[1]
         /\ person2' = pr[2]
         /\ relationship' = classify(person, pr[1], pr[2])
    /\ pc' = IF relationship' = NoRelationship THEN "sample" ELSE "couples"
    /\ UNCHANGED <<config, family_size, family, used_names, id_counter, person, gender,
                   name, visited, couples, pending, described_children, story_parts,
                   record, call, calls>>

----------------------------------------------------------------------------
(* _generate_story *)

\* the loop body without the test for the reversed tuple
add_couple_unchecked(P, cs, p) ==
    IF P[p].spouse # None THEN cs \cup {<<p, P[p].spouse>>} ELSE cs

\* lines 289-290: the body of the first loop for one person
add_couple(P, cs, p) ==
    IF P[p].spouse # None /\ <<P[p].spouse, p>> \notin cs
    THEN cs \cup {<<p, P[p].spouse>>}
    ELSE cs

\* lines 288-290: the first loop reaches one more person of the set, in any order
FindCouples ==
    /\ pc = "couples"
    /\ \E p \in family \ visited :
         /\ couples' = add_couple(person, couples, p)
         /\ visited' = visited \cup {p}
    /\ pending' = IF visited' = family THEN couples' ELSE pending
    /\ pc' = IF visited' = family THEN "describe" ELSE "couples"
    /\ UNCHANGED <<config, family_size, family, used_names, id_counter, person, gender,
                   name, person1, person2, relationship, described_children,
                   story_parts, record, call, calls>>

\* f"{person1.name} is married to {person2.name}."
MarriedSentence(n1, n2) == [kind |-> "married", names |-> <<n1, n2>>]

\* "They have a child called ..." / "They have children called ... and ..."
ChildrenSentence(ns) ==
    [kind |-> IF Len(ns) = 1 THEN "child" ELSE "children", names |-> ns]

\* line 298: [c for c in person1.children if c not in described_children]
undescribed(P, p1, described) ==
    SelectSeq(P[p1].children, LAMBDA c : c \notin described)

\* lines 295-308: the sentences one couple adds
describe(P, c, described) ==
    LET children == undescribed(P, c[1], described)
    IN  <<MarriedSentence(P[c[1]].name, P[c[2]].name)>> \o
        (IF Len(children) > 0
         THEN <<ChildrenSentence([i \in 1..Len(children) |-> P[children[i]].name])>>
         ELSE <<>>)

\* lines 294-308: the second loop reaches one more couple of the set, in any order
DescribeCouple ==
    /\ pc = "describe"
    /\ \E c \in pending :
         /\ story_parts' = story_parts \o describe(person, c, described_children)
         /\ described_children' =
                described_children \cup ListSet(undescribed(person, c[1], described_children))
         /\ pending' = pending \ {c}
    /\ pc' = IF pending' = {} THEN "question" ELSE "describe"
    /\ UNCHANGED <<config, family_size, family, used_names, id_counter, person, gender,
                   name, person1, person2, relationship, visited, couples, record,
                   call, calls>>

----------------------------------------------------------------------------
(* __getitem__ *)

\* lines 181-185: the templates, cut at their placeholders
Text(str) == [text |-> str]
Field(f) == [field |-> f]

templates ==
    << <<Text("What is "), Field("person1"), Text(" to "), Field("person2"), Text("?")>>,
       <<Text("How is "), Field("person1"), Text(" related to "), Field("person2"), Text("?")>>,
       <<Text("What relation is "), Field("person1"), Text(" to "), Field("person2"), Text("?")>> >>

\* str.format(person1=..., person2=...): each placeholder becomes the value of its keyword
format(t, n1, n2) ==
    [i \in 1..Len(t) |->
        IF "field" \in DOMAIN t[i]
        THEN [value |-> IF t[i].field = "person1" THEN n1 ELSE n2]
        ELSE t[i]]

\* lines 201-212: choose a template, format the question, build the record
ReturnItem ==
    /\ pc = "question"
    /\ \E t \in 1..Len(templates) :
         record' = [question |-> <<story_parts,
                                   format(templates[t], person[person1].name,
                                          person[person2].name)>>,
                    answer |-> relationship,
                    metadata |-> [person1 |-> person[person1].name,
                                  person2 |-> person[person2].name,
                                  relationship |-> relationship,
                                  family_size |-> Cardinality(family)]]
    /\ pc' = "done"
    /\ UNCHANGED <<config, family_size, family, used_names, id_counter, person, gender,
                   name, person1, person2, relationship, visited, couples, pending,
                   described_children, story_parts, call, calls>>

----------------------------------------------------------------------------
(* Calls of the Person methods on a free set of Persons *)

Persons == 0..(NumPersons - 1)

NoCall == <<"none", None, None>>

CallAddChild ==
    /\ pc = "person"
    /\ calls < MaxCalls
    /\ \E x \in Persons, y \in Persons :
         /\ person' = add_child(person, x, y)
         /\ call' = <<"add_child", x, y>>
    /\ calls' = calls + 1
    /\ UNCHANGED <<config, pc, family_size, family, used_names, id_counter, gender,
                   name, person1, person2, relationship, visited, couples, pending,
                   described_children, story_parts, record>>

CallAddSpouse ==
    /\ pc = "person"
    /\ calls < MaxCalls
    /\ \E x \in Persons, y \in Persons :
         /\ person' = add_spouse(person, x, y)
         /\ call' = <<"add_spouse", x, y>>
    /\ calls' = calls + 1
    /\ UNCHANGED <<config, pc, family_size, family, used_names, id_counter, gender,
                   name, person1, person2, relationship, visited, couples, pending,
                   described_children, story_parts, record>>

----------------------------------------------------------------------------
(* Specifications *)

NoRecord == [answer |-> NoRelationship]

InitLocals ==
    /\ family_size = 0
    /\ family = {}
    /\ used_names = {}
    /\ id_counter = 0
    /\ gender = MALE
    /\ name = None
    /\ person1 = None
    /\ person2 = None
    /\ relationship = NoRelationship
    /\ visited = {}
    /\ couples = {}
    /\ pending = {}
    /\ described_children = {}
    /\ story_parts = <<>>
    /\ record = NoRecord
    /\ call = NoCall
    /\ calls = 0

\* __getitem__ on a validated configuration
Init ==
    /\ config \in Configs
    /\ pc = "start"
    /\ person = <<>>
    /\ InitLocals

\* _generate_family
NextFamily ==
    \/ GenerateFamilySeed
    \/ AddChild
    \/ BreakChildLoop
    \/ ReturnFamily

\* _generate_family, then _get_relationship_question
NextQuestion ==
    \/ NextFamily
    \/ GetRelationshipQuestion

\* __getitem__
Next ==
    \/ NextQuestion
    \/ FindCouples
    \/ DescribeCouple
    \/ ReturnItem

Spec == Init /\ [][Next]_vars

\* __getitem__ up to the return of _get_relationship_question
SpecQuestion == Init /\ [][NextQuestion]_vars

\* SpecQuestion where the method keeps running and rng.sample is fair: when
\* classifiable pairs can be drawn again and again, one of them is drawn
FairSpec ==
    /\ Init
    /\ [][NextQuestion]_vars
    /\ WF_vars(NextQuestion)
    /\ SF_vars(GetRelationshipQuestion /\ relationship' # NoRelationship)

\* free Persons, created with Person(name, gender, id), and any calls on them;
\* the Person methods read no configuration
InitPerson ==
    /\ config \in {c \in Configs : c.male_names = c.female_names}
    /\ pc = "person"
    /\ person = [p \in Persons |-> NewPerson(p + 1, IF p % 2 = 0 THEN MALE ELSE FEMALE)]
    /\ InitLocals

NextPerson ==
    \/ CallAddChild
    \/ CallAddSpouse

SpecPerson == InitPerson /\ [][NextPerson]_vars

\* every way the object graph is built: family generation and free calls
SpecGraph == (Init \/ InitPerson) /\ [][NextFamily \/ NextPerson]_vars

----------------------------------------------------------------------------
(* Properties *)

\* _generate_family has returned
Built == pc \in {"sample", "couples", "describe", "question", "done"}

\* C1: no two members of the family returned by _generate_family share a
\* display name, the four seed members included.
C1_UniqueNames ==
    Built => \A a \in family, b \in family : a # b => person[a].name # person[b].name

\* C4: in a generated family at most one of the five classification conditions
\* holds for an ordered pair of distinct members, and exactly one holds for the
\* pair that is returned with a label.
Conditions(P, a, b) ==
    {i \in 1..5 : \/ i = 1 /\ is_parent(P, a, b)
                  \/ i = 2 /\ is_child(P, a, b)
                  \/ i = 3 /\ is_spouse(P, a, b)
                  \/ i = 4 /\ is_sibling(P, a, b)
                  \/ i = 5 /\ is_grandparent(P, a, b)}

C4_OneCondition ==
    /\ pc = "sample" =>
         \A pr \in sample(family) : Cardinality(Conditions(person, pr[1], pr[2])) <= 1
    /\ (Built /\ relationship # NoRelationship) =>
         Cardinality(Conditions(person, person1, person2)) = 1

C4_Witness ==
    /\ pc = "couples"
    /\ relationship = GRANDMOTHER
    /\ Cardinality(family) = 6

\* C7: after any calls of add_child, and in every generated family, Y is in
\* X.children exactly when X is in Y.parents, and no parents or children list
\* holds a Person twice.
NoDuplicates(s) == \A i \in 1..Len(s), j \in 1..Len(s) : s[i] = s[j] => i = j

C7_EdgeSymmetry ==
    \A x \in DOMAIN person :
      /\ NoDuplicates(person[x].children)
      /\ NoDuplicates(person[x].parents)
      /\ \A y \in DOMAIN person :
           InList(y, person[x].children) <=> InList(x, person[y].parents)

\* add_child(0, 1) was called twice in a row on fresh Persons
C7_Witness ==
    /\ pc = "person"
    /\ calls = 2
    /\ call = <<"add_child", 0, 1>>
    /\ person[0].children = <<1>>
    /\ person[1].parents = <<0>>
    /\ \A x \in Persons : person[x].spouse = None

\* C8: in a generated family the spouse relation is symmetric and irreflexive,
\* every spouse is a member, exactly the grandparent couple and the parent
\* couple are married, and no child has a spouse.
C8_SpouseRelation ==
    Built =>
      /\ \A a \in family :
           /\ person[a].spouse # a
           /\ person[a].spouse # None =>
                /\ person[a].spouse \in family
                /\ person[person[a].spouse].spouse = a
      /\ person[0].spouse = 1
      /\ person[2].spouse = 3
      /\ \A c \in family \ {0, 1, 2, 3} : person[c].spouse = None

C8_Witness ==
    /\ Built
    /\ Cardinality(family) = 6
    /\ person[4].gender # person[5].gender

\* C9 as stated: after any calls of add_spouse, re-marrying calls included, the
\* spouse relation is symmetric.
SpouseSymmetric(P) ==
    \A a \in DOMAIN P : P[a].spouse # None => P[P[a].spouse].spouse = a

C9_AlwaysSymmetric == pc = "person" => SpouseSymmetric(person)

\* C9 as amended: add_spouse(a, b) sets a.spouse = b and b.spouse = a, and the
\* relation stays symmetric across the call when neither a nor b had another
\* spouse before it.
NotRemarried(P, a, b) ==
    /\ P[a].spouse \in {None, a, b}
    /\ P[b].spouse \in {None, a, b}

C9_LinksBothWays ==
    [][(calls' = calls + 1 /\ call'[1] = "add_spouse") =>
         /\ person'[call'[2]].spouse = call'[3]
         /\ person'[call'[3]].spouse = call'[2]
         /\ (SpouseSymmetric(person) /\ NotRemarried(person, call'[2], call'[3]))
              => SpouseSymmetric(person')]_vars

C9_Witness ==
    /\ pc = "person"
    /\ calls = 2
    /\ call = <<"add_spouse", 2, 1>>
    /\ person[1].spouse = 2
    /\ person[2].spouse = 1
    /\ person[0].spouse = None
    /\ person[0].children = <<1>>

\* C10: the returned family has at least 4 members, at most max(4, target
\* size), falls short of a target above 4 only when the name draw for the
\* chosen gender found the pool exhausted, and metadata.family_size is the
\* member count.
C10_FamilySize ==
    Built =>
      /\ Cardinality(family) >= 4
      /\ Cardinality(family) <= (IF family_size > 4 THEN family_size ELSE 4)
      /\ (family_size > 4 /\ Cardinality(family) < family_size) =>
           /\ name = None
           /\ (IF gender = MALE THEN config.male_names ELSE config.female_names)
                \subseteq used_names
      /\ pc = "done" => record.metadata.family_size = Cardinality(family)

\* The kinship of a to b as _generate_family builds it (lines 233-255): Persons
\* 0 and 1 are the grandfather and grandmother, 2 and 3 the father and mother,
\* 2 is the child of 0 and 1, every later Person is a child of 2 and 3.
IsChildPerson(a) == a >= 4

Kinship(a, b) ==
    IF (a \in {0, 1} /\ b = 2) \/ (a \in {2, 3} /\ IsChildPerson(b)) THEN "parent"
    ELSE IF (b \in {0, 1} /\ a = 2) \/ (b \in {2, 3} /\ IsChildPerson(a)) THEN "child"
    ELSE IF {a, b} = {0, 1} \/ {a, b} = {2, 3} THEN "spouse"
    ELSE IF IsChildPerson(a) /\ IsChildPerson(b) /\ a # b THEN "sibling"
    ELSE IF a \in {0, 1} /\ IsChildPerson(b) THEN "grandparent"
    ELSE "none"

IsFemale(a) == IF a \in {0, 2} THEN FALSE ELSE IF a \in {1, 3} THEN TRUE
               ELSE person[a].gender = FEMALE

Label(kin, female) ==
    CASE kin = "parent" -> IF female THEN MOTHER ELSE FATHER
      [] kin = "child" -> IF female THEN DAUGHTER ELSE SON
      [] kin = "spouse" -> IF female THEN WIFE ELSE HUSBAND
      [] kin = "sibling" -> IF female THEN SISTER ELSE BROTHER
      [] kin = "grandparent" -> IF female THEN GRANDMOTHER ELSE GRANDFATHER
      [] OTHER -> NoRelationship

TrueRole(a, b) == Label(Kinship(a, b), IsFemale(a))

\* the values of the filled placeholders of a formatted question, left to right
NamesIn(q) ==
    LET filled == SelectSeq(q, LAMBDA tok : "value" \in DOMAIN tok)
    IN  [i \in 1..Len(filled) |-> filled[i].value]

\* C2: the answer of a returned record, equal to metadata.relationship, is the
\* kinship role of person1 relative to person2 in the family built, gendered by
\* person1; metadata and question name the two in that order; and in a family
\* with a female child C: (F, C) is father, (C, F) daughter, (G, F) father,
\* (G, C) grandfather, and two female children are sister.
C2_AnswerIsTrueRole ==
    /\ pc = "done" =>
         /\ record.answer = record.metadata.relationship
         /\ record.answer \in Relationship
         /\ record.answer = TrueRole(person1, person2)
         /\ record.metadata.person1 = person[person1].name
         /\ record.metadata.person2 = person[person2].name
         /\ NamesIn(record.question[2]) = <<person[person1].name, person[person2].name>>
    /\ pc = "sample" =>
         \A c \in family :
           (IsChildPerson(c) /\ person[c].gender = FEMALE) =>
             /\ classify(person, 2, c) = FATHER
             /\ classify(person, c, 2) = DAUGHTER
             /\ classify(person, 0, 2) = FATHER
             /\ classify(person, 0, c) = GRANDFATHER
             /\ \A d \in family :
                  (IsChildPerson(d) /\ d # c /\ person[d].gender = FEMALE) =>
                    classify(person, c, d) = SISTER

\* the record asks what one daughter is to the other
C2_Witness ==
    /\ pc = "done"
    /\ person1 = 5
    /\ person2 = 4
    /\ person[4].gender = FEMALE
    /\ record.answer = SISTER

\* C3 as stated: exchanging a classified pair gives mother<->daughter,
\* father<->son, wife<->husband, sister<->sister, brother<->brother, and the
\* exchange of a grandmother or grandfather pair matches no rule.
SwapTable(rel) ==
    CASE rel = MOTHER -> DAUGHTER
      [] rel = DAUGHTER -> MOTHER
      [] rel = FATHER -> SON
      [] rel = SON -> FATHER
      [] rel = WIFE -> HUSBAND
      [] rel = HUSBAND -> WIFE
      [] rel = SISTER -> SISTER
      [] rel = BROTHER -> BROTHER
      [] OTHER -> NoRelationship

C3_SwapTable ==
    (Built /\ relationship # NoRelationship) =>
      classify(person, person2, person1) = SwapTable(relationship)

\* C3 as amended: exchanging a classified pair (A, B) gives the inverse kind
\* gendered by B: mother or father <-> daughter or son, wife <-> husband,
\* sister or brother <-> sister or brother; the exchange of a grandmother or
\* grandfather pair matches no rule.
InverseLabel(rel, female) ==
    CASE rel \in {MOTHER, FATHER} -> IF female THEN DAUGHTER ELSE SON
      [] rel \in {DAUGHTER, SON} -> IF female THEN MOTHER ELSE FATHER
      [] rel \in {WIFE, HUSBAND} -> IF female THEN WIFE ELSE HUSBAND
      [] rel \in {SISTER, BROTHER} -> IF female THEN SISTER ELSE BROTHER
      [] OTHER -> NoRelationship

C3_SwapInverse ==
    (Built /\ relationship # NoRelationship) =>
      /\ classify(person, person2, person1) =
           InverseLabel(relationship, person[person2].gender = FEMALE)
      /\ relationship \in {GRANDMOTHER, GRANDFATHER} =>
           Conditions(person, person2, person1) = {}

\* a sister is sampled against her brother
C3_Witness ==
    /\ pc = "couples"
    /\ relationship = SISTER
    /\ person[person2].gender = MALE

MarriedIndexes(n1, n2) ==
    {i \in 1..Len(story_parts) :
        /\ story_parts[i].kind = "married"
        /\ story_parts[i].names \in {<<n1, n2>>, <<n2, n1>>}}

ListedAt(n) ==
    {ij \in (1..Len(story_parts)) \X (1..MaxFamilySize + 1) :
        /\ story_parts[ij[1]].kind \in {"child", "children"}
        /\ ij[2] <= Len(story_parts[ij[1]].names)
        /\ story_parts[ij[1]].names[ij[2]] = n}

C6_StoryFacts ==
    pc \in {"question", "done"} =>
      /\ \A a \in family :
           person[a].spouse # None =>
             Cardinality(MarriedIndexes(person[a].name, person[person[a].spouse].name)) = 1
      /\ Cardinality({i \in 1..Len(story_parts) : story_parts[i].kind = "married"}) =
           Cardinality({{a, person[a].spouse} : a \in {x \in family : person[x].spouse # None}})
      /\ \A c \in family :
           Len(person[c].parents) > 0 =>
             /\ Cardinality(ListedAt(person[c].name)) = 1
             /\ \A ij \in ListedAt(person[c].name) :
                  /\ ij[1] > 1
                  /\ Len(person[c].parents) = 2
                  /\ (ij[1] - 1) \in MarriedIndexes(person[person[c].parents[1]].name,
                                                    person[person[c].parents[2]].name)
      /\ \A i \in 1..Len(story_parts) :
           story_parts[i].kind \in {"child", "children"} =>
             \A j \in 1..Len(story_parts[i].names) :
               \E c \in family : /\ Len(person[c].parents) > 0
                                 /\ person[c].name = story_parts[i].names[j]

\* the parent couple was described first, with two children, mother named first
C6_Witness ==
    /\ pc = "done"
    /\ Len(story_parts) = 4
    /\ story_parts[1].names = <<person[3].name, person[2].name>>
    /\ story_parts[2].kind = "children"
    /\ story_parts[4].kind = "child"

====
